---- MODULE Spec2Model ----
(***************************************************************************)
(* Model of the two command-line workflows of archival_image_pipeline:     *)
(*   create_pdfs.py        review artifact + image directory -> sections   *)
(*                         -> one PDF per section                          *)
(*   apply_corrections.py  review artifact + image directory -> one        *)
(*                         rotated (or copied) file per image              *)
(* A file name is a TLA+ string; Chars gives its characters, so that       *)
(* sorting and Path.suffix are computed on the characters.  A JSON value   *)
(* is a record [type, value]; numbers and strings inside it are bare.      *)
(* An image is [name, turns]: turns counts counter-clockwise quarter       *)
(* turns applied to the pixels of file `name`.  Sizes are bytes.  A Python  *)
(* float (an IEEE-754 double) that is zero or at least 0.5 is held as the  *)
(* natural number value * 2^53, written in limbs of 15 bits, least         *)
(* significant first (<<>> is 0.0); products and sums are rounded to 53    *)
(* significant bits, ties to even, as the hardware rounds them.            *)
(***************************************************************************)
EXTENDS Integers, Sequences, FiniteSets, TLC

\* ------------------------------------------------------------------ bounds
MaxNames == 4          \* file names that may exist in the input directory
MaxDiscards == 1       \* entries of the discards list
MaxBreaks == 2         \* entries of the sectionBreaks list

\* ------------------------------------------------------- program constants
MiB == 1048576         \* args.max_size * 1024 * 1024
LimbBits == 15         \* bits of one limb of a float's representation
MantissaBits == 53     \* significant bits of a double; the unit is 2^-53

\* ------------------------------------------------------------- file names
NamePool == <<"b.jpg", "a.png", "n.txt", "c.JPEG", "D.JPG", "e.jpeg">>

Chars(name) ==
    CASE name = "a.png"  -> <<97, 46, 112, 110, 103>>
      [] name = "b.jpg"  -> <<98, 46, 106, 112, 103>>
      [] name = "n.txt"  -> <<110, 46, 116, 120, 116>>
      [] name = "c.JPEG" -> <<99, 46, 74, 80, 69, 71>>
      [] name = "D.JPG"  -> <<68, 46, 74, 80, 71>>
      [] name = "e.jpeg" -> <<101, 46, 106, 112, 101, 103>>

Min(a, b) == IF a < b THEN a ELSE b

Names == {NamePool[j] : j \in 1..Min(MaxNames, Len(NamePool))}

\* The angle a review gives a file when it lists one.
AngleOf(name) ==
    CASE name = "a.png"  -> 90
      [] name = "b.jpg"  -> 270
      [] name = "n.txt"  -> 180
      [] name = "c.JPEG" -> 45
      [] name = "D.JPG"  -> 180
      [] name = "e.jpeg" -> 90

\* str < str of Python on the characters of two names.
RECURSIVE SeqLess(_, _)
SeqLess(s, t) ==
    IF t = <<>> THEN FALSE
    ELSE IF s = <<>> THEN TRUE
    ELSE IF Head(s) # Head(t) THEN Head(s) < Head(t)
    ELSE SeqLess(Tail(s), Tail(t))

NameLess(a, b) == SeqLess(Chars(a), Chars(b))

\* sorted(files, key=lambda x: x.name) / sorted(list of paths of one directory)
RECURSIVE sorted(_)
sorted(S) ==
    IF S = {} THEN <<>>
    ELSE LET m == CHOOSE x \in S : \A y \in S : ~NameLess(y, x)
         IN  <<m>> \o sorted(S \ {m})

\* Path.suffix: the name from its last dot, "" when there is none or it leads.
suffix(name) ==
    LET c == Chars(name)
        dots == {j \in 1..Len(c) : c[j] = 46}
    IN  IF dots = {} THEN <<>>
        ELSE LET last == CHOOSE j \in dots : \A q \in dots : q <= j
             IN  IF last = 1 THEN <<>> ELSE SubSeq(c, last, Len(c))

extensions ==
    { <<46, 106, 112, 101, 103>>, <<46, 106, 112, 103>>, <<46, 112, 110, 103>>,
      <<46, 74, 80, 69, 71>>, <<46, 74, 80, 71>>, <<46, 80, 78, 71>> }

get_image_files(d) == sorted({f \in d : suffix(f) \in extensions})

\* ---------------------------------------------------------- Python floats
Base == 2 ^ LimbBits
Limb(a, j) == IF j \in 1..Len(a) THEN a[j] ELSE 0

\* without its leading zero limbs
Norm(a) ==
    LET used == {j \in 1..Len(a) : a[j] # 0}
    IN  IF used = {} THEN <<>>
        ELSE SubSeq(a, 1, CHOOSE j \in used : \A q \in used : q <= j)

\* the limbs of an integer n >= 0
RECURSIVE Nat2Big(_)
Nat2Big(n) == IF n = 0 THEN <<>> ELSE <<n % Base>> \o Nat2Big(n \div Base)

RECURSIVE BigAddCarry(_, _, _)
BigAddCarry(a, b, c) ==
    IF a = <<>> /\ b = <<>> THEN (IF c = 0 THEN <<>> ELSE <<c>>)
    ELSE LET t == Limb(a, 1) + Limb(b, 1) + c
         IN  <<t % Base>> \o BigAddCarry(IF a = <<>> THEN <<>> ELSE Tail(a),
                                         IF b = <<>> THEN <<>> ELSE Tail(b),
                                         t \div Base)
BigAdd(a, b) == BigAddCarry(a, b, 0)

\* a * k for one limb k
RECURSIVE BigMulLimb(_, _, _)
BigMulLimb(a, k, c) ==
    IF a = <<>> THEN (IF c = 0 THEN <<>> ELSE <<c>>)
    ELSE LET t == Head(a) * k + c
         IN  <<t % Base>> \o BigMulLimb(Tail(a), k, t \div Base)

RECURSIVE BigMul(_, _)
BigMul(a, b) ==
    IF a = <<>> \/ b = <<>> THEN <<>>
    ELSE LET rest == BigMul(a, Tail(b))
         IN  Norm(BigAdd(BigMulLimb(a, Head(b), 0),
                         IF rest = <<>> THEN <<>> ELSE <<0>> \o rest))

\* a < b
BigLess(a, b) ==
    \/ Len(a) < Len(b)
    \/ /\ Len(a) = Len(b)
       /\ \E j \in 1..Len(a) :
            /\ a[j] < b[j]
            /\ \A q \in (j + 1)..Len(a) : a[q] = b[q]

BitLength(a) ==
    IF a = <<>> THEN 0
    ELSE LimbBits * (Len(a) - 1)
         + (CHOOSE k \in 1..LimbBits : a[Len(a)] < 2 ^ k /\ a[Len(a)] >= 2 ^ (k - 1))

\* a div 2^s and a * 2^s
ShiftRight(a, s) ==
    LET w == s \div LimbBits
        d == s % LimbBits
    IN  IF Len(a) <= w THEN <<>>
        ELSE Norm([j \in 1..(Len(a) - w) |->
                     (Limb(a, j + w) \div 2 ^ d)
                     + (Limb(a, j + w + 1) % 2 ^ d) * 2 ^ (LimbBits - d)])
ShiftLeft(a, s) ==
    LET w == s \div LimbBits
        d == s % LimbBits
    IN  IF a = <<>> THEN <<>>
        ELSE Norm([j \in 1..(Len(a) + w + 1) |->
                     IF j <= w THEN 0
                     ELSE ((Limb(a, j - w) * 2 ^ d) % Base)
                          + (Limb(a, j - w - 1) \div 2 ^ (LimbBits - d))])

\* bit k of a (bit 0 the lowest), and whether the bits below k are all 0
Bit(a, k) == (Limb(a, (k \div LimbBits) + 1) \div 2 ^ (k % LimbBits)) % 2
LowBitsZero(a, k) ==
    /\ \A j \in 1..(k \div LimbBits) : Limb(a, j) = 0
    /\ Limb(a, (k \div LimbBits) + 1) % 2 ^ (k % LimbBits) = 0

\* an exact value rounded to the nearest double, ties to even
RoundToDouble(v) ==
    LET n == BitLength(v)
    IN  IF n <= MantissaBits THEN v
        ELSE LET s == n - MantissaBits
                 q == ShiftRight(v, s)
                 up == Bit(v, s - 1) = 1 /\ (~LowBitsZero(v, s - 1) \/ Bit(q, 0) = 1)
             IN  ShiftLeft(IF up THEN BigAdd(q, <<1>>) ELSE q, s)

FloatZero == <<>>
\* the double 0.85 = 7656119366529843 * 2^-53 (0x1.b333333333333p-1)
Float085 == <<13107, 26214, 19660, 217>>
\* st_size * 0.85
FloatTimes085(n) == RoundToDouble(BigMul(Nat2Big(n), Float085))
\* x + y
FloatAdd(x, y) == RoundToDouble(BigAdd(x, y))
\* x > n for a float x >= 0 and an int n (Python compares the two exactly)
FloatGreaterInt(x, n) ==
    n < 0 \/ BigLess(ShiftLeft(Nat2Big(n), MantissaBits), x)

\* ------------------------------------------------------------ JSON values
JDict(f) == [type |-> "dict", value |-> f]
JList(s) == [type |-> "list", value |-> s]
JNumber(n) == [type |-> "number", value |-> n]
NoFile == [type |-> "nofile", value |-> <<>>]

isdict(j) == j.type = "dict"
\* key in j, for a dict (its keys) and for a list (its items)
contains(j, key) ==
    IF j.type = "dict" THEN key \in DOMAIN j.value
    ELSE \E q \in DOMAIN j.value : j.value[q] = key
\* dict.get(key, default)
get(j, key, default) == IF key \in DOMAIN j.value THEN j.value[key] ELSE default
\* set(list)
set(j) == {j.value[q] : q \in DOMAIN j.value}

\* Inputs: the review artifacts a run may be given.
RECURSIVE SetToSeq(_)
SetToSeq(S) == IF S = {} THEN <<>>
               ELSE LET m == CHOOSE x \in S : \A y \in S : ~NameLess(y, x)
                    IN  SetToSeq(S \ {m}) \o <<m>>

UpTo(n) == {S \in SUBSET Names : Cardinality(S) <= n}
\* A rotation map lists no file, every second file of the pool, or every file.
OddNames == {NamePool[j] : j \in {q \in 1..Min(MaxNames, Len(NamePool)) : q % 2 = 1}}
RotationMaps == {[n \in D |-> AngleOf(n)] : D \in {{}, OddNames, Names}}
LegacyArtifacts == {JDict(r) : r \in RotationMaps}
CurrentArtifacts ==
    {JDict([corrections |-> JDict(r), sectionBreaks |-> JList(SetToSeq(b)),
            discards |-> JList(SetToSeq(d))]) :
        r \in RotationMaps, b \in UpTo(MaxBreaks), d \in UpTo(MaxDiscards)}
    \cup {JDict([corrections |-> JDict(r)]) : r \in RotationMaps}
NonObjectArtifacts ==
    {JList(SetToSeq(S)) : S \in UpTo(1)} \cup {JNumber(7)}

\* Inputs: the input directories, the first k names of the pool.
Directories == {{NamePool[j] : j \in 1..k} : k \in 0..Min(MaxNames, Len(NamePool))}

\* st_size values a file may have.  With --max-size 17 (17825792 bytes): two
\* files of 249976 bytes fit one section; 249976 + 249976 + 20471568 is
\* 20971520 = 17825792 / 0.85 exactly, where the rounding of the floats
\* decides the comparison; 22000000 bytes alone are over the limit.
StatSizes == {0, 249976, 20471568, 22000000}
MaxSizeArgs == {-1, 0, 17}             \* --max-size values (MB)

\* ------------------------------------------------------------------ state
VARIABLES
    dir,                \* names of the files of the input directory
    review,             \* the parsed review file, NoFile when it does not exist
    copy_unchanged,     \* --copy-unchanged (apply_corrections.py)
    st_size,            \* size of each file stat() has been asked for
    unreadable,         \* files that failed to decode so far
    pc,                 \* position of the run
    exc,                \* the exception that ended the run, "" when none
    output_dir_exists,  \* output_dir.mkdir() has run
    corrections, section_breaks, discards,
    all_images,         \* create_pdfs.py: sorted image names
    images,             \* create_pdfs.py: (name, rotation) pairs; apply: names
    sections, current_section, current_size, max_bytes,
    i,                  \* iterations completed by the current loop
    counts,             \* create_pdfs.py: part number -> value create_pdf returned
    pdfs,               \* create_pdfs.py: part number -> pages of the file saved
    write_failed,       \* create_pdfs.py: part numbers whose save raised
    stats,              \* apply_corrections.py: the four counters
    outfiles            \* apply_corrections.py: name -> image written under it

vars == <<dir, review, copy_unchanged, st_size, unreadable, pc, exc,
          output_dir_exists, corrections, section_breaks, discards, all_images,
          images, sections, current_section, current_size, max_bytes, i,
          counts, pdfs, write_failed, stats, outfiles>>

env == <<dir, review, copy_unchanged>>
pdfvars == <<all_images, section_breaks, discards, sections, current_section,
             current_size, max_bytes, counts, pdfs, write_failed>>
splitvars == <<sections, current_section, current_size, max_bytes>>
applyvars == <<stats, outfiles>>

EmptyMap == <<>>
Image(name) == [name |-> name, turns |-> 0]
name_of(entry) == entry[1]
names_of(seq) == {seq[j][1] : j \in DOMAIN seq}

InitProgram ==
    /\ st_size = EmptyMap
    /\ unreadable = {}
    /\ pc = "start"
    /\ exc = ""
    /\ output_dir_exists = FALSE
    /\ corrections = JDict(EmptyMap)
    /\ section_breaks = {}
    /\ discards = {}
    /\ all_images = <<>>
    /\ images = <<>>
    /\ sections = <<>>
    /\ current_section = <<>>
    /\ current_size = FloatZero
    /\ max_bytes = 0
    /\ i = 0
    /\ counts = EmptyMap
    /\ pdfs = EmptyMap
    /\ write_failed = {}
    /\ stats = [rotated |-> 0, copied |-> 0, skipped |-> 0, errors |-> 0]
    /\ outfiles = EmptyMap

InitReview ==
    \/ review = NoFile
    \/ review \in LegacyArtifacts
    \/ review \in CurrentArtifacts
    \/ review \in NonObjectArtifacts

raise(e) == pc' = "raised" /\ exc' = e

\* ------------------------------------------------- create_pdfs.py: helpers
\* rotate_image of create_pdfs.py (PIL transposes turn counter-clockwise)
rotate_image(img, degrees) ==
    IF degrees = 90 THEN [img EXCEPT !.turns = (@ + 1) % 4]
    ELSE IF degrees = 180 THEN [img EXCEPT !.turns = (@ + 2) % 4]
    ELSE IF degrees = 270 THEN [img EXCEPT !.turns = (@ + 3) % 4]
    ELSE img

\* the loop of create_pdf: bad are the files whose open/convert raises
RECURSIVE load_images(_, _, _, _)
load_images(image_data, bad, first_image, imgs) ==
    IF image_data = <<>> THEN [first_image |-> first_image, images |-> imgs]
    ELSE LET img_path == Head(image_data)[1]
             rotation == Head(image_data)[2]
             rest == Tail(image_data)
         IN  IF img_path \in bad
             THEN load_images(rest, bad, first_image, imgs)
             ELSE LET opened == Image(img_path)
                      img == IF rotation # 0 THEN rotate_image(opened, rotation)
                             ELSE opened
                  IN  IF first_image = <<>>
                      THEN load_images(rest, bad, <<img>>, imgs)
                      ELSE load_images(rest, bad, first_image, Append(imgs, img))

\* create_pdf returning len(images), the first page not counted
create_pdf_forgets_first(image_data, bad) ==
    IF image_data = <<>> THEN [pages |-> <<>>, count |-> 0]
    ELSE LET r == load_images(image_data, bad, <<>>, <<>>)
         IN  IF r.first_image # <<>>
             THEN [pages |-> r.first_image \o r.images, count |-> Len(r.images)]
             ELSE [pages |-> <<>>, count |-> 0]

\* create_pdf up to the save: the pages to save (<<>>: nothing is saved) and
\* the count returned when the save succeeds
create_pdf(image_data, bad) ==
    IF image_data = <<>> THEN [pages |-> <<>>, count |-> 0]
    ELSE LET r == load_images(image_data, bad, <<>>, <<>>)
         IN  IF r.first_image # <<>>
             THEN [pages |-> r.first_image \o r.images, count |-> Len(r.images) + 1]
             ELSE [pages |-> <<>>, count |-> 0]

\* the filter without its test of discards
RECURSIVE filter_keeps_discards(_, _, _, _)
filter_keeps_discards(todo, ds, corr, acc) ==
    IF todo = <<>> THEN [images |-> acc, raised |-> FALSE]
    ELSE IF ~isdict(corr) THEN [images |-> acc, raised |-> TRUE]
    ELSE filter_keeps_discards(Tail(todo), ds, corr,
                               Append(acc, <<Head(todo), get(corr, Head(todo), 0)>>))

\* lines 126-131: raised is TRUE when corrections.get does not exist
RECURSIVE filter_discards(_, _, _, _)
filter_discards(todo, ds, corr, acc) ==
    IF todo = <<>> THEN [images |-> acc, raised |-> FALSE]
    ELSE LET filename == Head(todo)
         IN  IF filename \notin ds
             THEN IF ~isdict(corr) THEN [images |-> acc, raised |-> TRUE]
                  ELSE filter_discards(Tail(todo), ds, corr,
                                       Append(acc, <<filename, get(corr, filename, 0)>>))
             ELSE filter_discards(Tail(todo), ds, corr, acc)

\* line 146 without "and current_section"
ManualSplitsAlways(filename, breaks, section) == filename \in breaks

\* line 146
ManualSplits(filename, breaks, section) == filename \in breaks /\ section # <<>>

\* line 165 testing the size before the image is added
AutoSplitsLate(size, img_size, limit, section) ==
    FloatGreaterInt(size, limit) /\ section # <<>>

\* line 165 taking a limit of 0 or less as no limit
AutoSplitsPositiveLimit(size, img_size, limit, section) ==
    limit > 0 /\ FloatGreaterInt(FloatAdd(size, img_size), limit) /\ section # <<>>

\* line 165: current_size + img_size > max_bytes and current_section
AutoSplits(size, img_size, limit, section) ==
    FloatGreaterInt(FloatAdd(size, img_size), limit) /\ section # <<>>

\* the trailing section forgotten
close_section_dropped(secs, section) == secs

\* lines 151-152 and 173-174
close_section(secs, section) ==
    IF section # <<>> THEN Append(secs, section) ELSE secs

\* ------------------------------------------------- create_pdfs.py: actions
MakeOutputDir ==
    /\ pc = "start"
    /\ output_dir_exists' = TRUE
    /\ pc' = "load"
    /\ UNCHANGED <<env, st_size, unreadable, exc, corrections, images, i,
                   pdfvars, applyvars>>

LoadReview ==
    /\ pc = "load"
    /\ IF review = NoFile
       THEN /\ pc' = "list"
            /\ UNCHANGED <<corrections, section_breaks, discards, exc>>
       ELSE LET data == review
                current == isdict(data) /\ contains(data, "corrections")
            IN  /\ corrections' = IF current
                                  THEN get(data, "corrections", JDict(EmptyMap))
                                  ELSE data
                /\ section_breaks' = IF current
                                     THEN set(get(data, "sectionBreaks", JList(<<>>)))
                                     ELSE {}
                /\ discards' = IF current
                               THEN set(get(data, "discards", JList(<<>>)))
                               ELSE {}
                /\ IF corrections'.type = "number"
                   THEN raise("TypeError")
                   ELSE pc' = "list" /\ exc' = exc
    /\ UNCHANGED <<env, st_size, unreadable, output_dir_exists, all_images, images,
                   splitvars, i, counts, pdfs, write_failed, applyvars>>

ListImages ==
    /\ pc = "list"
    /\ all_images' = get_image_files(dir)
    /\ pc' = "filter"
    /\ UNCHANGED <<env, st_size, unreadable, exc, output_dir_exists, corrections,
                   section_breaks, discards, images, splitvars, i, counts, pdfs,
                   write_failed, applyvars>>

FilterDiscards ==
    /\ pc = "filter"
    /\ LET r == filter_discards(all_images, discards, corrections, <<>>)
       IN  /\ images' = r.images
           /\ IF r.raised THEN raise("AttributeError")
              ELSE /\ pc' = IF r.images = <<>> THEN "done" ELSE "split"
                   /\ exc' = exc
    /\ UNCHANGED <<env, st_size, unreadable, output_dir_exists, corrections, i,
                   pdfvars, applyvars>>

BeginManual ==
    /\ pc = "split"
    /\ section_breaks # {}
    /\ sections' = <<>>
    /\ current_section' = <<>>
    /\ i' = 0
    /\ pc' = "manual"
    /\ UNCHANGED <<env, st_size, unreadable, exc, output_dir_exists, corrections,
                   images, all_images, section_breaks, discards, current_size,
                   max_bytes, counts, pdfs, write_failed, applyvars>>

ManualStep ==
    /\ pc = "manual"
    /\ i < Len(images)
    /\ LET entry == images[i + 1]
           split == ManualSplits(name_of(entry), section_breaks, current_section)
       IN  /\ sections' = IF split THEN Append(sections, current_section) ELSE sections
           /\ current_section' = Append(IF split THEN <<>> ELSE current_section, entry)
    /\ i' = i + 1
    /\ UNCHANGED <<env, st_size, unreadable, pc, exc, output_dir_exists, corrections,
                   images, all_images, section_breaks, discards, current_size,
                   max_bytes, counts, pdfs, write_failed, applyvars>>

ManualClose ==
    /\ pc = "manual"
    /\ i = Len(images)
    /\ sections' = close_section(sections, current_section)
    /\ i' = 0
    /\ pc' = "create"
    /\ UNCHANGED <<env, st_size, unreadable, exc, output_dir_exists, corrections,
                   images, all_images, section_breaks, discards, current_section,
                   current_size, max_bytes, counts, pdfs, write_failed, applyvars>>

BeginAuto ==
    /\ pc = "split"
    /\ section_breaks = {}
    /\ \E max_size \in MaxSizeArgs : max_bytes' = max_size * MiB
    /\ sections' = <<>>
    /\ current_section' = <<>>
    /\ current_size' = FloatZero
    /\ i' = 0
    /\ pc' = "auto"
    /\ UNCHANGED <<env, st_size, unreadable, exc, output_dir_exists, corrections,
                   images, all_images, section_breaks, discards, counts, pdfs,
                   write_failed, applyvars>>

AutoStep ==
    /\ pc = "auto"
    /\ i < Len(images)
    /\ \E size \in StatSizes :
         LET entry == images[i + 1]
             img_size == FloatTimes085(size)
             split == AutoSplits(current_size, img_size, max_bytes, current_section)
         IN  /\ st_size' = (name_of(entry) :> size) @@ st_size
             /\ sections' = IF split THEN Append(sections, current_section)
                            ELSE sections
             /\ current_section' = Append(IF split THEN <<>> ELSE current_section,
                                          entry)
             /\ current_size' = FloatAdd(IF split THEN FloatZero ELSE current_size,
                                          img_size)
    /\ i' = i + 1
    /\ UNCHANGED <<env, unreadable, pc, exc, output_dir_exists, corrections, images,
                   all_images, section_breaks, discards, max_bytes, counts, pdfs,
                   write_failed, applyvars>>

AutoClose ==
    /\ pc = "auto"
    /\ i = Len(images)
    /\ sections' = close_section(sections, current_section)
    /\ i' = 0
    /\ pc' = "create"
    /\ UNCHANGED <<env, st_size, unreadable, exc, output_dir_exists, corrections,
                   images, all_images, section_breaks, discards, current_section,
                   current_size, max_bytes, counts, pdfs, write_failed, applyvars>>

\* line 43: the sets of files of a section whose Image.open may raise; a file
\* that stat() found empty is among them
FailureSets(section) ==
    {bad \in SUBSET names_of(section) :
        \A n \in names_of(section) :
            (n \in DOMAIN st_size /\ st_size[n] = 0) => n \in bad}

\* one iteration of lines 184-193 in which first_image.save does not raise
CreatePdf ==
    /\ pc = "create"
    /\ i < Len(sections)
    /\ \E bad \in FailureSets(sections[i + 1]) :
         LET r == create_pdf(sections[i + 1], bad)
         IN  /\ unreadable' = unreadable \cup bad
             /\ pdfs' = IF r.pages # <<>> THEN ((i + 1) :> r.pages) @@ pdfs ELSE pdfs
             /\ counts' = ((i + 1) :> r.count) @@ counts
    /\ i' = i + 1
    /\ UNCHANGED <<env, st_size, pc, exc, output_dir_exists, corrections, images,
                   all_images, section_breaks, discards, splitvars, write_failed,
                   applyvars>>

\* one iteration in which first_image.save raises: nothing catches it
CreatePdfSaveRaises ==
    /\ pc = "create"
    /\ i < Len(sections)
    /\ \E bad \in FailureSets(sections[i + 1]) :
         /\ create_pdf(sections[i + 1], bad).pages # <<>>
         /\ unreadable' = unreadable \cup bad
    /\ write_failed' = write_failed \cup {i + 1}
    /\ raise("OSError")
    /\ UNCHANGED <<env, st_size, output_dir_exists, corrections, images, all_images,
                   section_breaks, discards, splitvars, i, counts, pdfs, applyvars>>

FinishPdfs ==
    /\ pc = "create"
    /\ i = Len(sections)
    /\ pc' = "done"
    /\ UNCHANGED <<env, st_size, unreadable, exc, output_dir_exists, corrections,
                   images, i, pdfvars, applyvars>>

InitPdf ==
    /\ dir \in Directories
    /\ InitReview
    /\ copy_unchanged = FALSE
    /\ InitProgram

NextPdf ==
    \/ MakeOutputDir
    \/ LoadReview
    \/ ListImages
    \/ FilterDiscards
    \/ BeginManual
    \/ ManualStep
    \/ ManualClose
    \/ BeginAuto
    \/ AutoStep
    \/ AutoClose
    \/ CreatePdf
    \/ CreatePdfSaveRaises
    \/ FinishPdfs

SpecPdf == InitPdf /\ [][NextPdf]_vars

\* ------------------------------------------- apply_corrections.py: helpers
\* rotate_image of apply_corrections.py (cv2.rotate)
rotate_image_cv2(image, angle) ==
    IF angle = 90 THEN [image EXCEPT !.turns = (@ + 1) % 4]
    ELSE IF angle = 180 THEN [image EXCEPT !.turns = (@ + 2) % 4]
    ELSE IF angle = 270 THEN [image EXCEPT !.turns = (@ + 3) % 4]
    ELSE image

EndsWith(s, t) ==
    Len(s) >= Len(t) /\ SubSeq(s, Len(s) - Len(t) + 1, Len(s)) = t

\* input_dir.glob('*.JPEG'), '*.jpeg', '*.jpg', '*.png'
patterns ==
    { <<46, 74, 80, 69, 71>>, <<46, 106, 112, 101, 103>>, <<46, 106, 112, 103>>,
      <<46, 112, 110, 103>> }

glob_images(d) == sorted({f \in d : \E t \in patterns : EndsWith(Chars(f), t)})

bump(counter) == [stats EXCEPT ![counter] = @ + 1]

\* ------------------------------------------- apply_corrections.py: actions
ApplyLoad ==
    /\ pc = "start"
    /\ IF review = NoFile
       THEN pc' = "done" /\ UNCHANGED <<corrections, exc>>
       ELSE /\ corrections' = review
            /\ IF review.type = "number" THEN raise("TypeError")
               ELSE pc' = "mkdir" /\ exc' = exc
    /\ UNCHANGED <<env, st_size, unreadable, output_dir_exists, images, i, pdfvars,
                   applyvars>>

ApplyMakeOutputDir ==
    /\ pc = "mkdir"
    /\ output_dir_exists' = TRUE
    /\ pc' = "glob"
    /\ UNCHANGED <<env, st_size, unreadable, exc, corrections, images, i, pdfvars,
                   applyvars>>

ApplyListImages ==
    /\ pc = "glob"
    /\ images' = glob_images(dir)
    /\ i' = 0
    /\ pc' = "loop"
    /\ UNCHANGED <<env, st_size, unreadable, exc, output_dir_exists, corrections,
                   pdfvars, applyvars>>

InLoop == pc = "loop" /\ i < Len(images)
filename == images[i + 1]
LoopFrame == UNCHANGED <<env, st_size, output_dir_exists, corrections, images,
                         pdfvars>>

\* lines 63-76: read, rotate, imwrite (which may return False and write nothing)
ApplyRotate ==
    /\ InLoop
    /\ contains(corrections, filename)
    /\ isdict(corrections)
    /\ LET angle == corrections.value[filename]
           rotated == rotate_image_cv2(Image(filename), angle)
       IN  \E written \in BOOLEAN :
             outfiles' = IF written THEN (filename :> rotated) @@ outfiles
                         ELSE outfiles
    /\ stats' = bump("rotated")
    /\ i' = i + 1
    /\ UNCHANGED <<unreadable, pc, exc>>
    /\ LoopFrame

\* lines 67-71: imread returns None
ApplyUnreadable ==
    /\ InLoop
    /\ contains(corrections, filename)
    /\ isdict(corrections)
    /\ unreadable' = unreadable \cup {filename}
    /\ stats' = bump("errors")
    /\ i' = i + 1
    /\ UNCHANGED <<pc, exc, outfiles>>
    /\ LoopFrame

\* lines 66-80: an exception inside the try is counted as an error.  imread,
\* rotate and imwrite raise before anything is written; the print of line 75
\* (its message holds the character U+00B0) raises after imwrite has written
\* the rotated file and before the rotated counter is advanced.
ApplyRotateRaises ==
    /\ InLoop
    /\ contains(corrections, filename)
    /\ isdict(corrections)
    /\ LET angle == corrections.value[filename]
           rotated == rotate_image_cv2(Image(filename), angle)
       IN  \E written \in BOOLEAN :
             outfiles' = IF written THEN (filename :> rotated) @@ outfiles
                         ELSE outfiles
    /\ stats' = bump("errors")
    /\ i' = i + 1
    /\ UNCHANGED <<unreadable, pc, exc>>
    /\ LoopFrame

\* line 65 on a list: corrections[filename] raises outside the try
ApplySubscriptRaises ==
    /\ InLoop
    /\ contains(corrections, filename)
    /\ ~isdict(corrections)
    /\ raise("TypeError")
    /\ UNCHANGED <<unreadable, i, applyvars>>
    /\ LoopFrame

\* lines 82-85, shutil.copy2 succeeds
ApplyCopy ==
    /\ InLoop
    /\ ~contains(corrections, filename)
    /\ copy_unchanged
    /\ outfiles' = (filename :> Image(filename)) @@ outfiles
    /\ stats' = bump("copied")
    /\ i' = i + 1
    /\ UNCHANGED <<unreadable, pc, exc>>
    /\ LoopFrame

\* line 84, shutil.copy2 raises: nothing catches it.  copy2 copies the file and
\* then its metadata, so it raises either before the destination exists or
\* after the destination has been written; no counter is advanced.
ApplyCopyRaises ==
    /\ InLoop
    /\ ~contains(corrections, filename)
    /\ copy_unchanged
    /\ \E written \in BOOLEAN :
         outfiles' = IF written THEN (filename :> Image(filename)) @@ outfiles
                     ELSE outfiles
    /\ raise("OSError")
    /\ UNCHANGED <<unreadable, i, stats>>
    /\ LoopFrame

\* lines 87-88
ApplySkip ==
    /\ InLoop
    /\ ~contains(corrections, filename)
    /\ ~copy_unchanged
    /\ stats' = bump("skipped")
    /\ i' = i + 1
    /\ UNCHANGED <<unreadable, pc, exc, outfiles>>
    /\ LoopFrame

ApplyFinish ==
    /\ pc = "loop"
    /\ i = Len(images)
    /\ pc' = "done"
    /\ UNCHANGED <<unreadable, exc, i, applyvars>>
    /\ LoopFrame

InitApply ==
    /\ dir \in Directories
    /\ InitReview
    /\ copy_unchanged \in BOOLEAN
    /\ InitProgram

NextApply ==
    \/ ApplyLoad
    \/ ApplyMakeOutputDir
    \/ ApplyListImages
    \/ ApplyRotate
    \/ ApplyUnreadable
    \/ ApplyRotateRaises
    \/ ApplySubscriptRaises
    \/ ApplyCopy
    \/ ApplyCopyRaises
    \/ ApplySkip
    \/ ApplyFinish

SpecApply == InitApply /\ [][NextApply]_vars

\* ------------------------------------------------------------------ claims
RECURSIVE Flatten(_)
Flatten(secs) == IF secs = <<>> THEN <<>> ELSE Head(secs) \o Flatten(Tail(secs))

\* the sum of the estimates st_size * 0.85 of a section, added in section
\* order as floats
RECURSIVE EstimateFrom(_, _)
EstimateFrom(section, acc) ==
    IF section = <<>> THEN acc
    ELSE EstimateFrom(Tail(section),
                      FloatAdd(acc, FloatTimes085(st_size[name_of(Head(section))])))
Estimate(section) == EstimateFrom(section, FloatZero)

\* the same sum in exact arithmetic (the estimate times 100)
RECURSIVE ExactEstimate(_)
ExactEstimate(section) ==
    IF section = <<>> THEN <<>>
    ELSE BigAdd(BigMul(Nat2Big(st_size[name_of(Head(section))]), <<85>>),
                ExactEstimate(Tail(section)))
ExactlyOver(section, limit) ==
    limit < 0 \/ BigLess(BigMul(Nat2Big(limit), <<100>>), ExactEstimate(section))

Listed(seq) == {seq[j] : j \in DOMAIN seq}
IndexIn(seq, x) == CHOOSE j \in DOMAIN seq : seq[j] = x

\* create_pdfs.py has built the corrected sequence
FilterDone == pc \in {"split", "manual", "auto", "create", "done"} \/ exc = "OSError"
\* create_pdfs.py has split a non-empty corrected sequence
SplitDone == pc \in {"create", "done", "raised"} /\ images # <<>>
\* the splitter has just returned: sections, st_size and max_bytes keep these
\* values for the rest of the run
SplitReturned == pc = "create" /\ i = 0
ManualMode == section_breaks # {}

\* C1: once the splitter has run (either mode) on a non-empty corrected
\* sequence, every section is non-empty and the sections concatenated in output
\* order are the corrected sequence: nothing lost, duplicated or reordered.
C1_SectionsPartitionEntries ==
    SplitDone =>
        /\ \A p \in DOMAIN sections : sections[p] # <<>>
        /\ Flatten(sections) = images

C1_Witness ==
    /\ SplitDone
    /\ Len(images) = 3
    /\ Len(sections) = 2

\* C2: in automatic mode, a section whose estimate sum exceeds maxBytes holds
\* exactly one entry: a section of two or more entries is within maxBytes,
\* with the sum taken as the code takes it (floats, in order) and exactly.
C2_AutoSectionsWithinBound ==
    (SplitReturned /\ ~ManualMode) =>
        \A p \in DOMAIN sections :
            Len(sections[p]) # 1 =>
                /\ ~FloatGreaterInt(Estimate(sections[p]), max_bytes)
                /\ ~ExactlyOver(sections[p], max_bytes)

C2_Witness ==
    /\ SplitReturned /\ ~ManualMode
    /\ max_bytes = 17 * MiB
    /\ \E p, q \in DOMAIN sections :
         /\ Len(sections[p]) = 2 /\ Estimate(sections[p]) # FloatZero
         /\ FloatGreaterInt(Estimate(sections[q]), max_bytes)

\* the break filenames that are in the image sequence, not discarded and not
\* the first surviving entry
EffectiveBreaks ==
    {b \in section_breaks :
        b \in Listed(all_images) /\ b \notin discards /\ b # name_of(images[1])}

\* C3: in manual mode the number of sections is 1 + the number of break
\* filenames that are present, not discarded and not the first surviving entry;
\* each of those starts a section, and no other filename starts a later section.
C3_ManualSectionCount ==
    (SplitDone /\ ManualMode) =>
        /\ Len(sections) = 1 + Cardinality(EffectiveBreaks)
        /\ \A b \in EffectiveBreaks :
             \E p \in DOMAIN sections : name_of(sections[p][1]) = b
        /\ \A p \in DOMAIN sections :
             p > 1 => name_of(sections[p][1]) \in EffectiveBreaks

C3_Witness ==
    /\ SplitDone /\ ManualMode
    /\ Len(sections) = 2
    /\ Cardinality(section_breaks) = 2
    /\ section_breaks \cap discards # {}

\* C4: the corrected sequence holds exactly the non-discarded filenames of the
\* (lexicographically sorted) image sequence, in the same relative order, each
\* with its angle from the rotations map or 0; its length is the length of the
\* image sequence minus the discarded filenames that occur in it.
C4_CorrectedSequence ==
    FilterDone =>
        /\ \A a, b \in DOMAIN all_images :
             a < b => NameLess(all_images[a], all_images[b])
        /\ names_of(images) = Listed(all_images) \ discards
        /\ \A a, b \in DOMAIN images :
             a < b => IndexIn(all_images, name_of(images[a]))
                        < IndexIn(all_images, name_of(images[b]))
        /\ \A a \in DOMAIN images :
             images[a][2] = IF name_of(images[a]) \in DOMAIN corrections.value
                            THEN corrections.value[name_of(images[a])]
                            ELSE 0
        /\ Len(images) = Len(all_images) - Cardinality(discards \cap Listed(all_images))

C4_Witness ==
    /\ FilterDone
    /\ Len(images) = 2
    /\ discards \cap Listed(all_images) # {}
    /\ \E a \in DOMAIN images : images[a][2] # 0

\* the discards and the rotations map a review artifact states, in either shape
ArtifactDiscards(r) ==
    IF isdict(r) /\ contains(r, "corrections")
    THEN set(get(r, "discards", JList(<<>>)))
    ELSE {}
ArtifactRotations(r) ==
    IF ~isdict(r) THEN EmptyMap
    ELSE IF contains(r, "corrections") THEN r.value["corrections"].value
    ELSE r.value

\* C5: in the rotation-apply workflow a discarded filename never gets an output
\* file, and an output file of an image that has a rotation entry holds the
\* image rotated by that entry's angle (either artifact shape, copy-unchanged
\* on or off).
C5_DiscardsNeverWritten ==
    \A n \in DOMAIN outfiles :
        /\ n \notin ArtifactDiscards(review)
        /\ n \in DOMAIN ArtifactRotations(review) =>
             outfiles[n] = rotate_image_cv2(Image(n), ArtifactRotations(review)[n])

\* C6: a failed write of one section's document does not end the run: when the
\* run has ended, every section has been handed to create_pdf.
C6_WriteFailureNonFatal ==
    /\ write_failed # {} => pc # "raised"
    /\ (pc \in {"done", "raised"} /\ images # <<>>) =>
         \A p \in DOMAIN sections : p \in DOMAIN counts \/ p \in write_failed

\* C7: with a review artifact whose JSON root is not an object the run aborts
\* before any I/O: no output directory, no image read, no output file, and the
\* run does not complete.
C7_NonObjectRootAborts ==
    review.type \in {"list", "number"} =>
        /\ ~output_dir_exists
        /\ outfiles = EmptyMap
        /\ unreadable = {}
        /\ pc # "done"

\* the entries of a section that decoded
Decoded(section) == SelectSeq(section, LAMBDA e : name_of(e) \notin unreadable)

\* C8: create_pdf returns the number of entries that decoded; when none did it
\* returns 0 and no file is written; otherwise the file's pages are the decoded
\* entries in section order.
C8_CreatePdfSkipsUndecodable ==
    \A p \in DOMAIN counts :
        LET good == Decoded(sections[p])
        IN  /\ counts[p] = Len(good)
            /\ good = <<>> => p \notin DOMAIN pdfs
            /\ good # <<>> =>
                 /\ p \in DOMAIN pdfs
                 /\ Len(pdfs[p]) = Len(good)
                 /\ \A j \in DOMAIN good : pdfs[p][j].name = name_of(good[j])

C8_Witness ==
    \E p \in DOMAIN counts :
        /\ Len(sections[p]) = 3
        /\ name_of(sections[p][1]) \in unreadable
        /\ counts[p] = 2
        /\ p \in DOMAIN pdfs

OnePerEntry ==
    /\ Len(sections) = Len(images)
    /\ \A p \in DOMAIN sections : Len(sections[p]) = 1

\* C9 as stated: in automatic mode with maxBytes <= 0 every entry is a section
\* of its own, whatever the file sizes (zero-byte files included).
C9_OneSectionPerEntry ==
    (SplitDone /\ ~ManualMode /\ max_bytes <= 0) => OnePerEntry

NoAdjacentEmptyFiles ==
    \A j \in 1..(Len(images) - 1) :
        st_size[name_of(images[j])] > 0 \/ st_size[name_of(images[j + 1])] > 0

\* C9 amended: in automatic mode with maxBytes < 0, or with maxBytes = 0 and no
\* two consecutive zero-byte entries, every entry is a section of its own.
C9_OneSectionPerEntryAmended ==
    (SplitDone /\ ~ManualMode /\ max_bytes <= 0
       /\ (max_bytes < 0 \/ NoAdjacentEmptyFiles)) => OnePerEntry

C9_Witness ==
    /\ SplitDone /\ ~ManualMode
    /\ max_bytes = 0
    /\ Len(images) = 3
    /\ st_size[name_of(images[1])] = 0
    /\ st_size[name_of(images[3])] = 0
    /\ NoAdjacentEmptyFiles
    /\ OnePerEntry

Counted == stats.rotated + stats.copied + stats.skipped + stats.errors

\* C10: after any prefix of k images the four counters sum to k, and no failure
\* on an image stops the loop: when the run has ended the counters sum to the
\* number of images found.
C10_CountersSumToImages ==
    /\ Counted = i
    /\ pc \in {"done", "raised"} => Counted = Len(images)

====
